---- MODULE Spec2Model ----
(***************************************************************************)
(* A model of the renter's sector downloader                               *)
(* (modules/renter/proto/downloader.go): sessions built by NewDownloader,  *)
(* Sector calls revising one contract of a ContractSet, Close and the      *)
(* cancellation watcher; the host is an arbitrary peer.  And of the        *)
(* renter's chunk repair (managedFetchAndRepairChunk): fetching a chunk's  *)
(* logical data from disk or by a download, encoding it, releasing memory  *)
(* and handing the chunk to the workers.                                   *)
(***************************************************************************)
EXTENDS Integers, Sequences, FiniteSets, TLC

(***************************************************************************)
(* Bounds of the model.                                                    *)
(***************************************************************************)
\* modules.SectorSize, scaled down: the bytes of one sector
SectorSize == 2
\* the host answers a Sector call with at most MaxBlobs payload blobs
MaxBlobs == 2
\* Sector calls made on one session
MaxCalls == 2

\* chunk.length: the bytes of a chunk's logical data
ChunkLength == 2
\* the bytes of a shard the encoder produces
PieceSize == 1
\* the shard slots of a file: len(chunk.pieceUsage)
NumPieces == 2
\* chunk.piecesNeeded is at most MaxPieces
MaxPieces == 10

Sessions == {"d1", "d2"}
\* the chunks under repair, one execution each, and the workers
Chunks == {"c1", "c2"}
Workers == {"w1", "w2"}
\* the callers of Close on a session; d2 is never closed by its owner
ClosersOf(s) == IF s = "d1" THEN {"k1", "k2"} ELSE {}
\* the sessions whose cancel channel the caller may close
Cancellable == {"d1"}
NoOne == "none"
\* host.DownloadBandwidthPrice: the prices a host entry may carry
BandwidthPrices == {250, 500}
\* renter funds of the contract when the model starts
InitFunds == {0, 500 * SectorSize, 1250 * SectorSize}
\* len(LastRevision.NewValidProofOutputs) of the contract when the model starts
InitOutputs == {1, 2}

\* the values of a byte of a payload
Bytes == {0, 1}

\* the blobs the host may put in a payload: one byte repeated, a byte short
\* of a sector, a sector, or a byte more
Blobs == {[i \in 1..n |-> b] : n \in (SectorSize - 1)..(SectorSize + 1), b \in Bytes}
\* the payloads the host may send: up to MaxBlobs copies of a blob
Payloads == {[i \in 1..n |-> b] : n \in 0..MaxBlobs, b \in Blobs}
\* the sectors the renter asks for
TargetSectors == {[i \in 1..SectorSize |-> b] : b \in Bytes}

(***************************************************************************)
(* crypto.MerkleRoot: a collision-free content hash, computed byte by byte *)
(* (it also fixes the length of what it hashes).                           *)
(***************************************************************************)
RECURSIVE MerkleRoot(_)
MerkleRoot(b) ==
  IF b = <<>> THEN 1
  ELSE Cardinality(Bytes) * MerkleRoot(SubSeq(b, 1, Len(b) - 1)) + b[Len(b)]

Roots == {MerkleRoot(b) : b \in TargetSectors}

NoErr == "nil"
ErrStopResponse == "stop response"
ErrInterrupted == "repair download interrupted by stop call"

VARIABLES
  \* the ContractSet: one contract id
  csPresent,      \* the id is in the set
  csHeld,         \* the session that has acquired the contract, or NoOne
  csContract,     \* the RenterContract the set stores
  \* the host
  hostVersion,    \* revision number of the latest revision the host accepted
  \* per session
  pc,             \* where NewDownloader / Sector of the session stands
  host,           \* hd.host.DownloadBandwidthPrice
  conn,           \* hd.conn: "nil", "open", "closed"
  closeChan,      \* hd.closeChan: "nil", "open", "closed"
  once,           \* hd.once: "fresh", "running", "done"
  watcher,        \* the goroutine NewDownloader spawns: "none", "waiting", "done"
  SaveFn,         \* hd.SaveFn is set (non-nil)
  cancel,         \* the cancel channel given to NewDownloader is closed
  closer,         \* the callers of Close: closer[s][k] is where k stands
  calls,          \* Sector calls started on the session
  \* locals of the running Sector call
  contract,       \* the acquired contract (a copy)
  root,           \* the requested Merkle root
  sectorPrice,
  rev,            \* the download revision built
  signedTxn,
  err,
  sectors,        \* blobs: the payload slice; read: ReadObject has filled it
  deferred,       \* the deferred functions registered so far
  \* what the last NewDownloader / Sector call returned
  ret,
  \* history
  before,         \* the contract as the set held it when the call acquired it
  saved,          \* what SaveFn was invoked with in this call, and its result
  sent,           \* the revision was sent to the host in this call
  reps,           \* <<successful, failed>> interactions the last call reported
                  \* to the hostDB
  shutdowns,      \* executions of hd.shutdown
  faulted,        \* a call panicked (close of a closed channel)
  paid,           \* sum of the prices of the successful Sector calls
  funds0,         \* <<funds, download spending>> when the model starts
  lateCancel,     \* the cancel channel was closed after a Close call had returned
  branch,         \* the case the watcher's select took: "none", "cancel", "closeChan"
  \* the renter
  chunk,          \* the unfinishedChunk of each repair
  run,            \* the execution of managedFetchAndRepairChunk on each chunk:
                  \* where it stands and its locals
  dl,             \* the section download of each chunk: "none", "queued",
                  \* "finished" (d.Err() is nil), "failed"
  stopped,        \* r.tg.StopChan() is closed
  memoryAvailable,\* bytes credited to the renter's memory accountant
  workerPool,     \* r.workerPool
  readers,        \* the executions holding r.mu for reading
  queue,          \* the chunks queued on each worker, in order
  trace           \* history of each execution: download requests issued, bytes
                  \* released, credits made, pool when the read lock was taken,
                  \* shards the encoder produced

vars == <<csPresent, csHeld, csContract, hostVersion,
          pc, host, conn, closeChan, once, watcher, SaveFn, cancel, closer,
          calls, contract, root, sectorPrice, rev, signedTxn, err, sectors,
          deferred, ret, before, saved, sent, reps, shutdowns, faulted, paid,
          funds0, lateCancel, branch,
          chunk, run, dl, stopped, memoryAvailable, workerPool, readers, queue,
          trace>>

csVars == <<csPresent, csHeld, csContract>>
connVars == <<conn, closeChan, once, watcher>>
localVars == <<contract, root, sectorPrice, rev, signedTxn, err, sectors, deferred>>
histVars == <<before, saved, sent, shutdowns, faulted, paid, funds0>>
watchVars == <<lateCancel, branch>>
renterVars == <<chunk, run, dl, stopped, memoryAvailable, workerPool, readers,
                queue, trace>>

Nil == [nil |-> TRUE]
NoRet == [op |-> "none", err |-> NoErr, sector |-> <<>>]
NoSave == [called |-> FALSE]
NoSectors == [read |-> FALSE, blobs |-> <<>>]

\* an unfinishedChunk not yet created by the scheduler
NoChunk == [localPath |-> FALSE, length |-> 0,
            piecesNeeded |-> 0, minimumPieces |-> 0, piecesCompleted |-> 0,
            pieceUsage |-> <<>>,
            logicalChunkData |-> <<>>, physicalChunkData |-> <<>>]
\* an execution not begun
NoRun == [pc |-> "idle", download |-> FALSE, err |-> NoErr, memoryFreed |-> 0,
          visited |-> {}, log |-> "none"]
NoTrace == [requests |-> 0, released |-> 0, credits |-> <<>>, snapshot |-> {},
            encoded |-> <<>>]

\* RenterContract.RenterFunds: the renter's payout of the last revision
RenterFunds(c) == c.LastRevision.funds

Init ==
  /\ csPresent = TRUE
  /\ csHeld = NoOne
  /\ \E f \in InitFunds, n \in InitOutputs :
       /\ csContract = [LastRevision |-> [funds |-> f, version |-> 1, outputs |-> n],
                        LastRevisionTxn |-> 1,
                        DownloadSpending |-> 0,
                        MerkleRoots |-> Roots]
       /\ funds0 = <<f, 0>>
  /\ hostVersion = 1
  /\ pc = [s \in Sessions |-> "new"]
  /\ host = [s \in Sessions |-> 0]
  /\ conn = [s \in Sessions |-> "nil"]
  /\ closeChan = [s \in Sessions |-> "nil"]
  /\ once = [s \in Sessions |-> "fresh"]
  /\ watcher = [s \in Sessions |-> "none"]
  /\ SaveFn = [s \in Sessions |-> FALSE]
  /\ cancel = [s \in Sessions |-> FALSE]
  /\ closer = [s \in Sessions |-> [k \in ClosersOf(s) |-> "idle"]]
  /\ calls = [s \in Sessions |-> 0]
  /\ contract = [s \in Sessions |-> Nil]
  /\ root = [s \in Sessions |-> 0]
  /\ sectorPrice = [s \in Sessions |-> 0]
  /\ rev = [s \in Sessions |-> Nil]
  /\ signedTxn = [s \in Sessions |-> 0]
  /\ err = [s \in Sessions |-> NoErr]
  /\ sectors = [s \in Sessions |-> NoSectors]
  /\ deferred = [s \in Sessions |-> {}]
  /\ ret = [s \in Sessions |-> NoRet]
  /\ before = [s \in Sessions |-> Nil]
  /\ saved = [s \in Sessions |-> NoSave]
  /\ sent = [s \in Sessions |-> FALSE]
  /\ reps = [s \in Sessions |-> <<0, 0>>]
  /\ shutdowns = [s \in Sessions |-> 0]
  /\ faulted = [s \in Sessions |-> FALSE]
  /\ paid = 0
  /\ lateCancel = [s \in Sessions |-> FALSE]
  /\ branch = [s \in Sessions |-> "none"]
  /\ chunk = [c \in Chunks |-> NoChunk]
  /\ run = [c \in Chunks |-> NoRun]
  /\ dl = [c \in Chunks |-> "none"]
  /\ stopped = FALSE
  /\ memoryAvailable = 0
  /\ workerPool = {"w1"}
  /\ readers = {}
  /\ queue = [w \in Workers |-> <<>>]
  /\ trace = [c \in Chunks |-> NoTrace]

\* the outcomes of a round trip on the session's socket: it may fail at any
\* time, and it fails when the socket has been closed on this side
IO(s) == IF conn[s] = "open" THEN {TRUE, FALSE} ELSE {FALSE}

(***************************************************************************)
(* NewDownloader                                                           *)
(***************************************************************************)
\* IsRevisionMismatch: the error is the recent-revision agreement's mismatch
IsRevisionMismatch(e) == e = "revision mismatch"

\* NewDownloaderInteractions without the exemption of a revision mismatch
NewDownloaderInteractionsNoExemption(e) ==
  IF e # NoErr THEN <<0, 1>> ELSE <<1, 0>>

\* the function NewDownloader defers: <<successes, failures>> it counts when
\* NewDownloader returns e
NewDownloaderInteractions(e) ==
  IF e # NoErr /\ ~IsRevisionMismatch(e) THEN <<0, 1>>
  ELSE IF e = NoErr THEN <<1, 0>>
  ELSE <<0, 0>>

\* close(ch): closing a closed channel panics
ChanAfterClose(ch) == "closed"
PanicsOnClose(ch) == ch = "closed"

\* NewDownloader returns e after its deferred function was registered
NewReturn(s, e) ==
  LET d == NewDownloaderInteractions(e) IN
  /\ reps' = [reps EXCEPT ![s] = d]
  /\ ret' = [ret EXCEPT ![s] = [op |-> "new", err |-> e, sector |-> <<>>]]
  /\ pc' = [pc EXCEPT ![s] = IF e = NoErr THEN "ready" ELSE "failed"]

\* the contract is viewed and checked; nothing is counted on these failures
NewDownloader(s, price) ==
  /\ pc[s] = "new"
  /\ LET e == IF ~csPresent \/ csContract.LastRevision.outputs # 2
                THEN "invalid contract"
              ELSE IF RenterFunds(csContract) < price * SectorSize
                THEN "contract has insufficient funds to support download"
              ELSE NoErr
     IN /\ pc' = [pc EXCEPT ![s] = IF e = NoErr THEN "dial" ELSE "failed"]
        /\ ret' = [ret EXCEPT ![s] =
                     IF e = NoErr THEN @
                     ELSE [op |-> "new", err |-> e, sector |-> <<>>]]
        /\ host' = [host EXCEPT ![s] = IF e = NoErr THEN price ELSE @]
  /\ UNCHANGED <<csVars, hostVersion, connVars, SaveFn, cancel, closer,
                 calls, localVars, reps, histVars, watchVars, renterVars>>

\* the dial, and on success the channel and the watcher goroutine
NewDial(s) ==
  /\ pc[s] = "dial"
  /\ \E ok \in BOOLEAN :
       IF ok
       THEN /\ conn' = [conn EXCEPT ![s] = "open"]
            /\ closeChan' = [closeChan EXCEPT ![s] = "open"]
            /\ watcher' = [watcher EXCEPT ![s] = "waiting"]
            /\ pc' = [pc EXCEPT ![s] = "rpc"]
            /\ UNCHANGED <<reps, ret>>
       ELSE /\ NewReturn(s, "dial failed")
            /\ UNCHANGED <<conn, closeChan, watcher>>
  /\ UNCHANGED <<csVars, hostVersion, host, once, SaveFn, cancel, closer, calls,
                 localVars, histVars, watchVars, renterVars>>

\* a handshake step failed with e: the socket and the channel are closed
NewHandshakeFailed(s, e) ==
  /\ conn' = [conn EXCEPT ![s] = "closed"]
  /\ closeChan' = [closeChan EXCEPT ![s] = ChanAfterClose(@)]
  /\ faulted' = [faulted EXCEPT ![s] = @ \/ PanicsOnClose(closeChan[s])]
  /\ NewReturn(s, e)

\* the RPC selector is written
NewWriteRPC(s) ==
  /\ pc[s] = "rpc"
  /\ \E ok \in IO(s) :
       IF ok
       THEN /\ pc' = [pc EXCEPT ![s] = "verify"]
            /\ UNCHANGED <<conn, closeChan, faulted, reps, ret>>
       ELSE NewHandshakeFailed(s, "couldn't initiate RPC")
  /\ UNCHANGED <<csVars, hostVersion, host, once, watcher, SaveFn, cancel, closer,
                 calls, localVars, before, saved, sent, shutdowns, paid, funds0, watchVars, renterVars>>

\* verifyRecentRevision: the host reports whatever revision it likes
NewVerify(s) ==
  /\ pc[s] = "verify"
  /\ \E e \in IF conn[s] = "open"
                THEN {NoErr, "revision mismatch", "recent revision failed"}
                ELSE {"recent revision failed"} :
       IF e = NoErr
       THEN /\ NewReturn(s, NoErr)
            /\ UNCHANGED <<conn, closeChan, faulted>>
       ELSE NewHandshakeFailed(s, e)
  /\ UNCHANGED <<csVars, hostVersion, host, once, watcher, SaveFn, cancel, closer,
                 calls, localVars, before, saved, sent, shutdowns, paid, funds0, watchVars, renterVars>>

(***************************************************************************)
(* The cancellation watcher and its signal                                 *)
(***************************************************************************)
\* the caller closes the cancel channel it gave to NewDownloader
Cancel(s) ==
  /\ ~cancel[s]
  /\ pc[s] # "failed"
  /\ cancel' = [cancel EXCEPT ![s] = TRUE]
  /\ lateCancel' = [lateCancel EXCEPT ![s] =
                      \E k \in ClosersOf(s) : closer[s][k] = "done"]
  /\ UNCHANGED <<csVars, hostVersion, pc, host, connVars, SaveFn, closer,
                 calls, localVars, ret, reps, histVars, branch, renterVars>>

\* WatcherCancel that returns without closing the socket
WatcherCancelNoClose(s) ==
  /\ watcher[s] = "waiting"
  /\ cancel[s]
  /\ watcher' = [watcher EXCEPT ![s] = "done"]
  /\ branch' = [branch EXCEPT ![s] = "cancel"]
  /\ UNCHANGED <<csVars, hostVersion, pc, host, conn, closeChan, once, SaveFn,
                 cancel, closer, calls, localVars, ret, reps, histVars,
                 lateCancel, renterVars>>

\* case <-cancel: conn.Close().  The select takes any case that can proceed:
\* this one also when closeChan is closed as well
WatcherCancel(s) ==
  /\ watcher[s] = "waiting"
  /\ cancel[s]
  /\ conn' = [conn EXCEPT ![s] = "closed"]
  /\ watcher' = [watcher EXCEPT ![s] = "done"]
  /\ branch' = [branch EXCEPT ![s] = "cancel"]
  /\ UNCHANGED <<csVars, hostVersion, pc, host, closeChan, once, SaveFn,
                 cancel, closer, calls, localVars, ret, reps, histVars,
                 lateCancel, renterVars>>

\* case <-closeChan:
WatcherClosed(s) ==
  /\ watcher[s] = "waiting"
  /\ closeChan[s] = "closed"
  /\ watcher' = [watcher EXCEPT ![s] = "done"]
  /\ branch' = [branch EXCEPT ![s] = "closeChan"]
  /\ UNCHANGED <<csVars, hostVersion, pc, host, conn, closeChan, once,
                 SaveFn, cancel, closer, calls, localVars, ret, reps, histVars,
                 lateCancel, renterVars>>

(***************************************************************************)
(* The ContractSet                                                         *)
(***************************************************************************)
\* Acquire(id) can take the contract: it blocks while another holds it
CanAcquire(s) == csHeld = NoOne

\* Return(contract): the set stores the contract handed back and releases it
Return(s, c) ==
  /\ csContract' = c
  /\ csHeld' = NoOne
  /\ UNCHANGED csPresent

\* the contract is removed from the set while nobody holds it
DeleteContract ==
  /\ csPresent
  /\ csHeld = NoOne
  /\ csPresent' = FALSE
  /\ UNCHANGED <<csHeld, csContract, hostVersion, pc, host, connVars,
                 SaveFn, cancel, closer, calls, localVars, ret, reps, histVars, watchVars, renterVars>>

(***************************************************************************)
(* Sector                                                                  *)
(***************************************************************************)
\* sectorPrice.MulFloat(1 + hostPriceLeeway): the price inflated by 0.2%,
\* rounded down
MulFloatLeeway(x) == (x * 1002) \div 1000

\* newDownloadRevision(current, downloadCost): the next revision, paying
\* downloadCost out of the renter's funds
newDownloadRevision(current, downloadCost) ==
  [current EXCEPT !.funds = @ - downloadCost, !.version = @ + 1]

\* CheckSectors without the comparison of the Merkle root
CheckSectorsNoHash(ss, r) ==
  IF Len(ss) # 1 THEN "host did not send enough sectors"
  ELSE IF Len(ss[1]) # SectorSize THEN "host did not send enough sector data"
  ELSE NoErr

\* CheckSectors with len(sectors) < 1 for len(sectors) != 1
CheckSectorsAtLeastOne(ss, r) ==
  IF Len(ss) < 1 THEN "host did not send enough sectors"
  ELSE IF Len(ss[1]) # SectorSize THEN "host did not send enough sector data"
  ELSE IF MerkleRoot(ss[1]) # r THEN "host sent bad sector data"
  ELSE NoErr

\* the checks of the payload read: the error they end in
CheckSectors(ss, r) ==
  IF Len(ss) # 1 THEN "host did not send enough sectors"
  ELSE IF Len(ss[1]) # SectorSize THEN "host did not send enough sector data"
  ELSE IF MerkleRoot(ss[1]) # r THEN "host sent bad sector data"
  ELSE NoErr

\* UpdateContract that adds the price to the spending and keeps the old revision
UpdateContractKeepsRevision(c, r, txn, price) ==
  [c EXCEPT !.LastRevisionTxn = txn,
            !.DownloadSpending = @ + price]

\* update contract and metrics
UpdateContract(c, r, txn, price) ==
  [c EXCEPT !.LastRevision = r,
            !.LastRevisionTxn = txn,
            !.DownloadSpending = @ + price]

\* SectorInteractions reading an err that an inner := has shadowed: always nil
SectorInteractionsShadowed(e) == <<1, 0>>

\* the function Sector defers once the download action is sent:
\* <<successes, failures>> it counts when Sector returns e
SectorInteractions(e) == IF e # NoErr THEN <<0, 1>> ELSE <<1, 0>>

\* what the caller keeps of an error Sector returned: that it is one
Returned(e) == IF e = NoErr THEN NoErr ELSE "error"

\* the Sector call fails with e: its deferred functions run next
SectorFail(s, e) ==
  /\ err' = [err EXCEPT ![s] = e]
  /\ pc' = [pc EXCEPT ![s] = "defers"]

\* SectorAcquire that reads the contract without waiting for its holder
SectorAcquireNoWait(s, r) ==
  /\ pc[s] = "ready"
  /\ calls[s] < MaxCalls
  /\ csPresent
  /\ calls' = [calls EXCEPT ![s] = @ + 1]
  /\ reps' = [reps EXCEPT ![s] = <<0, 0>>]
  /\ csHeld' = s
  /\ contract' = [contract EXCEPT ![s] = csContract]
  /\ before' = [before EXCEPT ![s] = csContract]
  /\ root' = [root EXCEPT ![s] = r]
  /\ deferred' = [deferred EXCEPT ![s] = {"return"}]
  /\ pc' = [pc EXCEPT ![s] = "price"]
  /\ UNCHANGED <<csPresent, csContract, ret, hostVersion, host, connVars, SaveFn,
                 cancel, closer, sectorPrice, rev, signedTxn, err, sectors, saved,
                 sent, shutdowns, faulted, paid, funds0, watchVars, renterVars>>

\* Sector is called and acquires the contract
SectorAcquire(s, r) ==
  /\ pc[s] = "ready"
  /\ calls[s] < MaxCalls
  /\ calls' = [calls EXCEPT ![s] = @ + 1]
  /\ reps' = [reps EXCEPT ![s] = <<0, 0>>]
  /\ IF ~csPresent
     THEN /\ ret' = [ret EXCEPT ![s] =
                       [op |-> "sector",
                        err |-> Returned("contract not present in contract set"),
                        sector |-> <<>>]]
          /\ UNCHANGED <<csVars, pc, contract, root, deferred, before>>
     ELSE /\ CanAcquire(s)
          /\ csHeld' = s
          /\ contract' = [contract EXCEPT ![s] = csContract]
          /\ before' = [before EXCEPT ![s] = csContract]
          /\ root' = [root EXCEPT ![s] = r]
          /\ deferred' = [deferred EXCEPT ![s] = {"return"}]
          /\ pc' = [pc EXCEPT ![s] = "price"]
          /\ UNCHANGED <<csPresent, csContract, ret>>
  /\ UNCHANGED <<hostVersion, host, connVars, SaveFn, cancel, closer,
                 sectorPrice, rev, signedTxn, err, sectors, saved, sent,
                 shutdowns, faulted, paid, funds0, watchVars, renterVars>>

\* calculate price, create the download revision
SectorRevision(s) ==
  /\ pc[s] = "price"
  /\ LET price == host[s] * SectorSize IN
     IF RenterFunds(contract[s]) < price
     THEN /\ SectorFail(s, "contract has insufficient funds to support download")
          /\ UNCHANGED <<sectorPrice, rev>>
     ELSE /\ sectorPrice' = [sectorPrice EXCEPT ![s] = MulFloatLeeway(price)]
          /\ rev' = [rev EXCEPT ![s] =
                       newDownloadRevision(contract[s].LastRevision,
                                           MulFloatLeeway(price))]
          /\ pc' = [pc EXCEPT ![s] = "start"]
          /\ UNCHANGED err
  /\ UNCHANGED <<csVars, hostVersion, host, connVars, SaveFn, cancel,
                 closer, calls, contract, root, signedTxn, sectors, deferred,
                 ret, reps, histVars, watchVars, renterVars>>

\* initiate download by confirming host settings
SectorStartDownload(s) ==
  /\ pc[s] = "start"
  /\ \E ok \in IO(s) :
       IF ok THEN pc' = [pc EXCEPT ![s] = "save"] /\ UNCHANGED err
       ELSE SectorFail(s, "settings failed")
  /\ UNCHANGED <<csVars, hostVersion, host, connVars, SaveFn, cancel,
                 closer, calls, contract, root, sectorPrice, rev, signedTxn,
                 sectors, deferred, ret, reps, histVars, watchVars, renterVars>>

\* the arguments Sector hands to SaveFn
SaveArgs(s) == [rev |-> rev[s], roots |-> contract[s].MerkleRoots]

\* SectorSave that drops the error of SaveFn
SectorSaveDropsError(s) ==
  /\ pc[s] = "save"
  /\ pc' = [pc EXCEPT ![s] = "send"]
  /\ IF ~SaveFn[s]
     THEN UNCHANGED saved
     ELSE \E ok \in BOOLEAN :
            saved' = [saved EXCEPT ![s] =
                        [called |-> TRUE, ok |-> ok,
                         rev |-> SaveArgs(s).rev, roots |-> SaveArgs(s).roots]]
  /\ UNCHANGED <<csVars, hostVersion, host, connVars, SaveFn, cancel,
                 closer, calls, contract, root, sectorPrice, rev, signedTxn, err,
                 sectors, deferred, ret, reps, before, sent, shutdowns, faulted,
                 paid, funds0, watchVars, renterVars>>

\* before we continue, save the revision
SectorSave(s) ==
  /\ pc[s] = "save"
  /\ IF ~SaveFn[s]
     THEN /\ pc' = [pc EXCEPT ![s] = "send"]
          /\ UNCHANGED <<err, saved>>
     ELSE \E ok \in BOOLEAN :
            /\ saved' = [saved EXCEPT ![s] =
                          [called |-> TRUE, ok |-> ok,
                           rev |-> SaveArgs(s).rev, roots |-> SaveArgs(s).roots]]
            /\ IF ok THEN pc' = [pc EXCEPT ![s] = "send"] /\ UNCHANGED err
               ELSE SectorFail(s, "save failed")
  /\ UNCHANGED <<csVars, hostVersion, host, connVars, SaveFn, cancel,
                 closer, calls, contract, root, sectorPrice, rev, signedTxn,
                 sectors, deferred, ret, reps, before, sent, shutdowns, faulted,
                 paid, funds0, watchVars, renterVars>>

\* send download action, then register the interaction count
SectorSendAction(s) ==
  /\ pc[s] = "send"
  /\ \E ok \in IO(s) :
       IF ok
       THEN /\ pc' = [pc EXCEPT ![s] = "negotiate"]
            /\ deferred' = [deferred EXCEPT ![s] = @ \cup {"interactions"}]
            /\ UNCHANGED err
       ELSE SectorFail(s, "send failed") /\ UNCHANGED deferred
  /\ UNCHANGED <<csVars, hostVersion, host, connVars, SaveFn, cancel,
                 closer, calls, contract, root, sectorPrice, rev, signedTxn,
                 sectors, ret, reps, histVars, watchVars, renterVars>>

\* what negotiateRevision may end in: the revision is not sent ("unsent"); it is
\* sent and the host refuses it ("rejected"); the host accepts it but its answer
\* does not arrive ("lost"); the host accepts and signs it ("accepted"), or does
\* so with a stop response ("stop")
NegotiateOutcomes(s) ==
  IF conn[s] = "open" THEN {"unsent", "rejected", "lost", "accepted", "stop"}
  ELSE {"unsent"}

\* SectorNegotiate that returns the stop response as it returns any error
SectorNegotiateStopFails(s) ==
  /\ pc[s] = "negotiate"
  /\ \E o \in NegotiateOutcomes(s) :
       /\ sent' = [sent EXCEPT ![s] = o # "unsent"]
       /\ hostVersion' = IF o \in {"lost", "accepted", "stop"}
                           THEN rev[s].version ELSE hostVersion
       /\ IF o = "accepted"
          THEN /\ signedTxn' = [signedTxn EXCEPT ![s] = rev[s].version]
               /\ pc' = [pc EXCEPT ![s] = "read"]
               /\ UNCHANGED err
          ELSE /\ SectorFail(s, IF o = "stop" THEN ErrStopResponse
                                ELSE "revision failed")
               /\ UNCHANGED signedTxn
  /\ UNCHANGED <<csVars, host, connVars, SaveFn, cancel, closer, calls,
                 contract, root, sectorPrice, rev, sectors, deferred, ret, reps,
                 before, saved, shutdowns, faulted, paid, funds0, watchVars, renterVars>>

\* send the revision to the host for approval
SectorNegotiate(s) ==
  /\ pc[s] = "negotiate"
  /\ \E o \in NegotiateOutcomes(s) :
       /\ sent' = [sent EXCEPT ![s] = o # "unsent"]
       /\ hostVersion' = IF o \in {"lost", "accepted", "stop"}
                           THEN rev[s].version ELSE hostVersion
       /\ IF o \in {"accepted", "stop"}
          THEN /\ signedTxn' = [signedTxn EXCEPT ![s] = rev[s].version]
               /\ err' = [err EXCEPT ![s] =
                            IF o = "stop" THEN ErrStopResponse ELSE NoErr]
               /\ deferred' = [deferred EXCEPT ![s] =
                                 IF o = "stop" THEN @ \cup {"close"} ELSE @]
               /\ pc' = [pc EXCEPT ![s] = "read"]
          ELSE /\ SectorFail(s, "revision failed")
               /\ UNCHANGED <<signedTxn, deferred>>
  /\ UNCHANGED <<csVars, host, connVars, SaveFn, cancel, closer, calls,
                 contract, root, sectorPrice, rev, sectors, ret, reps, before,
                 saved, shutdowns, faulted, paid, funds0, watchVars, renterVars>>

\* read sector data, check it, update contract and metrics
SectorRead(s) ==
  /\ pc[s] = "read"
  /\ pc' = [pc EXCEPT ![s] = "defers"]
  /\ \E ok \in IO(s) :
       IF ~ok
       THEN /\ err' = [err EXCEPT ![s] = "read failed"]
            /\ UNCHANGED <<sectors, contract>>
       ELSE \E ss \in Payloads :
              /\ sectors' = [sectors EXCEPT ![s] = [read |-> TRUE, blobs |-> ss]]
              /\ err' = [err EXCEPT ![s] = CheckSectors(ss, root[s])]
              /\ contract' = [contract EXCEPT ![s] =
                                IF CheckSectors(ss, root[s]) = NoErr
                                  THEN UpdateContract(@, rev[s], signedTxn[s],
                                                      sectorPrice[s])
                                  ELSE @]
  /\ UNCHANGED <<csVars, hostVersion, host, connVars, SaveFn, cancel,
                 closer, calls, root, sectorPrice, rev, signedTxn, deferred, ret,
                 reps, histVars, watchVars, renterVars>>

\* SectorReturn with the contract handed back at the end of Sector rather than
\* in a deferred function: an early return keeps it
SectorReturnNotDeferred(s) ==
  /\ pc[s] = "defers"
  /\ pc' = [pc EXCEPT ![s] = "ready"]
  /\ conn' = [conn EXCEPT ![s] = IF "close" \in deferred[s] THEN "closed" ELSE @]
  /\ reps' = [reps EXCEPT ![s] =
                IF "interactions" \in deferred[s]
                  THEN SectorInteractions(err[s]) ELSE <<0, 0>>]
  /\ IF "return" \in deferred[s] /\ err[s] = NoErr
       THEN Return(s, contract[s]) ELSE UNCHANGED csVars
  /\ ret' = [ret EXCEPT ![s] =
               [op |-> "sector", err |-> Returned(err[s]),
                sector |-> IF err[s] = NoErr THEN sectors[s].blobs[1] ELSE <<>>]]
  /\ paid' = IF err[s] = NoErr THEN paid + sectorPrice[s] ELSE paid
  /\ contract' = [contract EXCEPT ![s] = Nil]
  /\ rev' = [rev EXCEPT ![s] = Nil]
  /\ root' = [root EXCEPT ![s] = 0]
  /\ sectorPrice' = [sectorPrice EXCEPT ![s] = 0]
  /\ signedTxn' = [signedTxn EXCEPT ![s] = 0]
  /\ err' = [err EXCEPT ![s] = NoErr]
  /\ sectors' = [sectors EXCEPT ![s] = NoSectors]
  /\ deferred' = [deferred EXCEPT ![s] = {}]
  /\ before' = [before EXCEPT ![s] = Nil]
  /\ saved' = [saved EXCEPT ![s] = NoSave]
  /\ sent' = [sent EXCEPT ![s] = FALSE]
  /\ UNCHANGED <<hostVersion, host, closeChan, once, watcher, SaveFn, cancel,
                 closer, calls, shutdowns, faulted, funds0, watchVars, renterVars>>

\* Sector returns: the deferred functions run, last registered first
SectorReturn(s) ==
  /\ pc[s] = "defers"
  /\ pc' = [pc EXCEPT ![s] = "ready"]
  /\ conn' = [conn EXCEPT ![s] = IF "close" \in deferred[s] THEN "closed" ELSE @]
  /\ reps' = [reps EXCEPT ![s] =
                IF "interactions" \in deferred[s]
                  THEN SectorInteractions(err[s]) ELSE <<0, 0>>]
  /\ IF "return" \in deferred[s] THEN Return(s, contract[s]) ELSE UNCHANGED csVars
  /\ ret' = [ret EXCEPT ![s] =
               [op |-> "sector", err |-> Returned(err[s]),
                sector |-> IF err[s] = NoErr THEN sectors[s].blobs[1] ELSE <<>>]]
  /\ paid' = IF err[s] = NoErr THEN paid + sectorPrice[s] ELSE paid
  /\ contract' = [contract EXCEPT ![s] = Nil]
  /\ rev' = [rev EXCEPT ![s] = Nil]
  /\ root' = [root EXCEPT ![s] = 0]
  /\ sectorPrice' = [sectorPrice EXCEPT ![s] = 0]
  /\ signedTxn' = [signedTxn EXCEPT ![s] = 0]
  /\ err' = [err EXCEPT ![s] = NoErr]
  /\ sectors' = [sectors EXCEPT ![s] = NoSectors]
  /\ deferred' = [deferred EXCEPT ![s] = {}]
  /\ before' = [before EXCEPT ![s] = Nil]
  /\ saved' = [saved EXCEPT ![s] = NoSave]
  /\ sent' = [sent EXCEPT ![s] = FALSE]
  /\ UNCHANGED <<hostVersion, host, closeChan, once, watcher, SaveFn, cancel,
                 closer, calls, shutdowns, faulted, funds0, watchVars, renterVars>>

\* the caller sets the exported field SaveFn of the session it was given
SetSaveFn(s) ==
  /\ pc[s] = "ready"
  /\ ~SaveFn[s]
  /\ calls[s] = 0
  /\ SaveFn' = [SaveFn EXCEPT ![s] = TRUE]
  /\ UNCHANGED <<csVars, hostVersion, pc, host, connVars, cancel, closer,
                 calls, localVars, ret, reps, histVars, watchVars, renterVars>>

(***************************************************************************)
(* Close                                                                   *)
(***************************************************************************)
\* Close that calls hd.shutdown without the sync.Once
CloseCallNoOnce(s, k) ==
  /\ pc[s] = "ready"
  /\ closer[s][k] = "idle"
  /\ once' = [once EXCEPT ![s] = "running"]
  /\ closer' = [closer EXCEPT ![s][k] = "shutdown"]
  /\ UNCHANGED <<csVars, hostVersion, pc, host, conn, closeChan, watcher,
                 SaveFn, cancel, calls, localVars, ret, reps, histVars, watchVars, renterVars>>

\* hd.once.Do(hd.shutdown): the first caller runs shutdown, a caller that
\* arrives while it runs waits for it, a later one goes on at once
CloseCall(s, k) ==
  /\ pc[s] = "ready"
  /\ closer[s][k] = "idle"
  /\ once[s] # "running"
  /\ IF once[s] = "fresh"
     THEN /\ once' = [once EXCEPT ![s] = "running"]
          /\ closer' = [closer EXCEPT ![s][k] = "shutdown"]
     ELSE /\ closer' = [closer EXCEPT ![s][k] = "conn"]
          /\ UNCHANGED once
  /\ UNCHANGED <<csVars, hostVersion, pc, host, conn, closeChan, watcher,
                 SaveFn, cancel, calls, localVars, ret, reps, histVars, watchVars, renterVars>>

\* shutdown: the settings round trip and the stop message (their errors are
\* dropped), then close(hd.closeChan)
shutdown(s, k) ==
  /\ closer[s][k] = "shutdown"
  /\ shutdowns' = [shutdowns EXCEPT ![s] = @ + 1]
  /\ closeChan' = [closeChan EXCEPT ![s] = ChanAfterClose(@)]
  /\ faulted' = [faulted EXCEPT ![s] = @ \/ PanicsOnClose(closeChan[s])]
  /\ once' = [once EXCEPT ![s] = "done"]
  /\ closer' = [closer EXCEPT ![s][k] = "conn"]
  /\ UNCHANGED <<csVars, hostVersion, pc, host, conn, watcher, SaveFn,
                 cancel, calls, localVars, ret, reps, before, saved, sent, paid,
                 funds0, watchVars, renterVars>>

\* return hd.conn.Close()
CloseConn(s, k) ==
  /\ closer[s][k] = "conn"
  /\ conn' = [conn EXCEPT ![s] = "closed"]
  /\ closer' = [closer EXCEPT ![s][k] = "done"]
  /\ UNCHANGED <<csVars, hostVersion, pc, host, closeChan, once, watcher,
                 SaveFn, cancel, calls, localVars, ret, reps, histVars, watchVars, renterVars>>

(***************************************************************************)
(* The renter's chunk repair                                               *)
(***************************************************************************)
downloaderVars == <<csVars, hostVersion, pc, host, connVars, SaveFn, cancel,
                    closer, calls, localVars, ret, reps, histVars, watchVars>>

\* what a buffer holds: make([]byte, n), the bytes of the local file, the
\* bytes the download wrote
Zeroes(n) == [i \in 1..n |-> "zero"]
DiskData(n) == [i \in 1..n |-> "disk"]
NetData(n) == [i \in 1..n |-> "net"]
\* the shards of an encoding that produces n of them
Shards(n) == [i \in 1..n |-> [j \in 1..PieceSize |-> i]]
\* what erasureCode.Encode may end in: an error, or a number of shards
EncodeOutcomes ==
  {[ok |-> FALSE, n |-> 0]}
    \cup {[ok |-> TRUE, n |-> k] : k \in (NumPieces - 1)..(NumPieces + 1)}
\* the piece usage a chunk may come with
PieceUsages == [1..NumPieces -> BOOLEAN]

\* the division of Go's ints: it truncates toward zero
GoDiv(a, b) == IF a >= 0 THEN a \div b ELSE -((-a) \div b)

minMissingPiecesToDownload(ch) == GoDiv(ch.piecesNeeded - ch.minimumPieces, 4)

\* download with <= for <
downloadAtMost(ch) ==
  ch.piecesCompleted + minMissingPiecesToDownload(ch) <= ch.piecesNeeded

\* only download this file if more than 25% of the redundancy is missing
download(ch) ==
  ch.piecesCompleted + minMissingPiecesToDownload(ch) < ch.piecesNeeded

\* the chunks the scheduler may hand to a repair
ChunkWith(lp, counts, usage) ==
  [localPath |-> lp, length |-> ChunkLength,
   piecesNeeded |-> counts[1], minimumPieces |-> counts[2],
   piecesCompleted |-> counts[3],
   pieceUsage |-> usage,
   logicalChunkData |-> <<>>, physicalChunkData |-> <<>>]

\* managedFetchAndRepairChunk is called on a chunk the scheduler created and
\* decides whether to download
RepairChunk(c, ch) ==
  /\ run[c].pc = "idle"
  /\ chunk' = [chunk EXCEPT ![c] = ch]
  /\ run' = [run EXCEPT ![c].pc = "fetch", ![c].download = download(ch)]
  /\ UNCHANGED <<downloaderVars, dl, stopped, memoryAvailable, workerPool,
                 readers, queue, trace>>

\* managedFetchLogicalChunkData has returned e to managedFetchAndRepairChunk
AfterFetch(r, e) ==
  IF e # NoErr THEN [r EXCEPT !.pc = "done", !.err = e, !.log = "debug"]
  ELSE [r EXCEPT !.pc = "encode"]

\* managedDownloadLogicalChunkData creates and queues the section download
QueueDownload(c) ==
  /\ dl' = [dl EXCEPT ![c] = "queued"]
  /\ trace' = [trace EXCEPT ![c].requests = @ + 1]
  /\ run' = [run EXCEPT ![c].pc = "wait"]

\* managedFetchLogicalChunkData, up to the allocation of the buffer
FetchLogical(c) ==
  /\ run[c].pc = "fetch"
  /\ IF ~chunk[c].localPath /\ run[c].download
     THEN QueueDownload(c) /\ UNCHANGED chunk
     ELSE IF ~chunk[c].localPath
     THEN /\ run' = [run EXCEPT ![c] = AfterFetch(@, "file not available locally")]
          /\ UNCHANGED <<chunk, dl, trace>>
     ELSE /\ chunk' = [chunk EXCEPT ![c].logicalChunkData = Zeroes(chunk[c].length)]
          /\ run' = [run EXCEPT ![c].pc = "open"]
          /\ UNCHANGED <<dl, trace>>
  /\ UNCHANGED <<downloaderVars, stopped, memoryAvailable, workerPool, readers,
                 queue>>

\* FetchOpen that falls back to the download whatever the flag
FetchOpenAlwaysFallsBack(c) ==
  /\ run[c].pc = "open"
  /\ \E ok \in BOOLEAN :
       IF ok
       THEN /\ run' = [run EXCEPT ![c].pc = "read"]
            /\ UNCHANGED <<chunk, dl, trace>>
       ELSE /\ chunk' = [chunk EXCEPT ![c].logicalChunkData = <<>>]
            /\ QueueDownload(c)
  /\ UNCHANGED <<downloaderVars, stopped, memoryAvailable, workerPool, readers,
                 queue>>

\* os.Open(chunk.localPath)
FetchOpen(c) ==
  /\ run[c].pc = "open"
  /\ \E ok \in BOOLEAN :
       IF ok
       THEN /\ run' = [run EXCEPT ![c].pc = "read"]
            /\ UNCHANGED <<chunk, dl, trace>>
       ELSE IF run[c].download
       THEN /\ chunk' = [chunk EXCEPT ![c].logicalChunkData = <<>>]
            /\ QueueDownload(c)
       ELSE /\ run' = [run EXCEPT ![c] = AfterFetch(@, "failed to open file locally")]
            /\ UNCHANGED <<chunk, dl, trace>>
  /\ UNCHANGED <<downloaderVars, stopped, memoryAvailable, workerPool, readers,
                 queue>>

\* osFile.ReadAt(chunk.logicalChunkData, chunk.offset)
FetchRead(c) ==
  /\ run[c].pc = "read"
  /\ \E ok \in BOOLEAN :
       IF ok
       THEN /\ chunk' = [chunk EXCEPT ![c].logicalChunkData = DiskData(chunk[c].length)]
            /\ run' = [run EXCEPT ![c] = AfterFetch(@, NoErr)]
            /\ UNCHANGED <<dl, trace>>
       ELSE IF run[c].download
       THEN /\ chunk' = [chunk EXCEPT ![c].logicalChunkData = <<>>]
            /\ QueueDownload(c)
       ELSE /\ run' = [run EXCEPT ![c] = AfterFetch(@, "failed to read file locally")]
            /\ UNCHANGED <<chunk, dl, trace>>
  /\ UNCHANGED <<downloaderVars, stopped, memoryAvailable, workerPool, readers,
                 queue>>

\* the download subsystem finishes the section download, well or not
DownloadFinishes(c) ==
  /\ dl[c] = "queued"
  /\ \E ok \in BOOLEAN :
       dl' = [dl EXCEPT ![c] = IF ok THEN "finished" ELSE "failed"]
  /\ UNCHANGED <<downloaderVars, chunk, run, stopped, memoryAvailable,
                 workerPool, readers, queue, trace>>

\* the renter's thread group is stopped
Stop ==
  /\ ~stopped
  /\ stopped' = TRUE
  /\ UNCHANGED <<downloaderVars, chunk, run, dl, memoryAvailable, workerPool,
                 readers, queue, trace>>

\* the cases of the select that can proceed
ReadyCases(c) ==
  (IF dl[c] \in {"finished", "failed"} THEN {"downloadFinished"} ELSE {})
    \cup (IF stopped THEN {"StopChan"} ELSE {})

\* the select of managedDownloadLogicalChunkData takes one of the cases that
\* can proceed, and the function returns
DownloadWait(c) ==
  /\ run[c].pc = "wait"
  /\ \E case \in ReadyCases(c) :
       IF case = "StopChan"
       THEN /\ run' = [run EXCEPT ![c] =
                         AfterFetch(@, ErrInterrupted)]
            /\ UNCHANGED chunk
       ELSE /\ chunk' = [chunk EXCEPT ![c].logicalChunkData = NetData(chunk[c].length)]
            /\ run' = [run EXCEPT ![c] =
                         AfterFetch(@, IF dl[c] = "failed" THEN "download failed"
                                       ELSE NoErr)]
  /\ UNCHANGED <<downloaderVars, dl, stopped, memoryAvailable, workerPool,
                 readers, queue, trace>>

\* create the physical pieces, nil out the logical data, check the number of
\* pieces
Encode(c) ==
  /\ run[c].pc = "encode"
  /\ \E o \in EncodeOutcomes :
       IF ~o.ok
       THEN /\ run' = [run EXCEPT ![c].pc = "done", ![c].err = "encode failed",
                                  ![c].log = "debug"]
            /\ UNCHANGED <<chunk, trace>>
       ELSE /\ chunk' = [chunk EXCEPT ![c].physicalChunkData = Shards(o.n),
                                      ![c].logicalChunkData = <<>>]
            /\ trace' = [trace EXCEPT
                           ![c].encoded = Shards(o.n),
                           ![c].released = @ + Len(chunk[c].logicalChunkData)]
            /\ run' = [run EXCEPT
                         ![c].memoryFreed = Len(chunk[c].logicalChunkData),
                         ![c].pc = IF o.n < Len(chunk[c].pieceUsage)
                                     THEN "done" ELSE "free",
                         ![c].log = IF o.n < Len(chunk[c].pieceUsage)
                                      THEN "critical" ELSE @]
  /\ UNCHANGED <<downloaderVars, dl, stopped, memoryAvailable, workerPool,
                 readers, queue>>

\* Unneeded that takes the pieces not in use
UnneededInverted(usage, i) == i <= Len(usage) /\ ~usage[i]

\* the loop nils out piece i: it is within the piece usage and in use
Unneeded(usage, i) == i <= Len(usage) /\ usage[i]

\* the bytes of the pieces 1..i the loop nils out
RECURSIVE UnneededBytes(_, _, _)
UnneededBytes(pieces, usage, i) ==
  IF i = 0 THEN 0
  ELSE UnneededBytes(pieces, usage, i - 1)
         + (IF Unneeded(usage, i) THEN Len(pieces[i]) ELSE 0)

\* nil out the pieces that are not needed and tell the renter how much memory
\* was freed
FreeUnneeded(c) ==
  /\ run[c].pc = "free"
  /\ LET pieces == chunk[c].physicalChunkData
         usage == chunk[c].pieceUsage
         bytes == UnneededBytes(pieces, usage, Len(usage))
     IN /\ chunk' = [chunk EXCEPT ![c].physicalChunkData =
                       [i \in 1..Len(pieces) |->
                          IF Unneeded(usage, i) THEN <<>> ELSE pieces[i]]]
        /\ run' = [run EXCEPT ![c].memoryFreed = @ + bytes, ![c].pc = "lock"]
        /\ memoryAvailable' = memoryAvailable + run[c].memoryFreed + bytes
        /\ trace' = [trace EXCEPT
                       ![c].released = @ + bytes,
                       ![c].credits = Append(@, run[c].memoryFreed + bytes)]
  /\ UNCHANGED <<downloaderVars, dl, stopped, workerPool, readers, queue>>

\* id := r.mu.RLock()
RLock(c) ==
  /\ run[c].pc = "lock"
  /\ readers' = readers \cup {c}
  /\ run' = [run EXCEPT ![c].pc = "distribute"]
  /\ trace' = [trace EXCEPT ![c].snapshot = workerPool]
  /\ UNCHANGED <<downloaderVars, chunk, dl, stopped, memoryAvailable,
                 workerPool, queue>>

\* worker.queueChunkRepair(chunk), for the next worker of the range
queueChunkRepair(c, w) ==
  /\ run[c].pc = "distribute"
  /\ w \in workerPool \ run[c].visited
  /\ queue' = [queue EXCEPT ![w] = Append(@, c)]
  /\ run' = [run EXCEPT ![c].visited = @ \cup {w}]
  /\ UNCHANGED <<downloaderVars, chunk, dl, stopped, memoryAvailable,
                 workerPool, readers, trace>>

\* the range is over: r.mu.RUnlock(id)
RUnlock(c) ==
  /\ run[c].pc = "distribute"
  /\ workerPool \subseteq run[c].visited
  /\ readers' = readers \ {c}
  /\ run' = [run EXCEPT ![c].pc = "done"]
  /\ UNCHANGED <<downloaderVars, chunk, dl, stopped, memoryAvailable,
                 workerPool, queue, trace>>

\* UpdateWorkerPool that does not take r.mu
UpdateWorkerPoolNoLock(w) ==
  /\ workerPool' = IF w \in workerPool THEN workerPool \ {w}
                   ELSE workerPool \cup {w}
  /\ UNCHANGED <<downloaderVars, chunk, run, dl, stopped, memoryAvailable,
                 readers, queue, trace>>

\* the renter adds a worker to the pool or removes one, holding r.mu for
\* writing: no execution holds it for reading
UpdateWorkerPool(w) ==
  /\ readers = {}
  /\ workerPool' = IF w \in workerPool THEN workerPool \ {w}
                   ELSE workerPool \cup {w}
  /\ UNCHANGED <<downloaderVars, chunk, run, dl, stopped, memoryAvailable,
                 readers, queue, trace>>

\* the steps of the repair of the chunks cs, with their section downloads
Repair(cs) ==
  \/ \E c \in cs : FetchLogical(c)
  \/ \E c \in cs : FetchOpen(c)
  \/ \E c \in cs : FetchRead(c)
  \/ \E c \in cs : DownloadFinishes(c)
  \/ \E c \in cs : DownloadWait(c)
  \/ \E c \in cs : Encode(c)
  \/ \E c \in cs : FreeUnneeded(c)
  \/ \E c \in cs : RLock(c)
  \/ \E c \in cs : \E w \in Workers : queueChunkRepair(c, w)
  \/ \E c \in cs : RUnlock(c)

\* the chunks the scheduler hands to the repairs that run side by side: c1 is
\* any chunk, lightly (MaxPieces - 1 of MaxPieces pieces) or heavily
\* under-replicated; c2 is a lightly under-replicated chunk with a local file
ChunksOf(c) ==
  IF c = "c1"
  THEN {ChunkWith(lp, counts, usage) :
          lp \in BOOLEAN,
          counts \in {<<MaxPieces, 6, MaxPieces - 1>>, <<MaxPieces, 6, 7>>},
          usage \in PieceUsages}
  ELSE {ChunkWith(TRUE, <<MaxPieces, 6, MaxPieces - 1>>, [i \in 1..NumPieces |-> i = 1])}

\* the repairs of the chunks side by side, the pool changing and the renter
\* stopping meanwhile
NextRepair ==
  \/ \E c \in Chunks : \E ch \in ChunksOf(c) : RepairChunk(c, ch)
  \/ Repair(Chunks)
  \/ \E w \in Workers : UpdateWorkerPool(w)
  \/ Stop

\* the contract plays no part in a repair
InitRepair ==
  /\ Init
  /\ funds0[1] = 0
  /\ csContract.LastRevision.outputs = 2

SpecRepair == InitRepair /\ [][NextRepair]_vars

\* the piece counts a chunk may have: 1 <= minimumPieces <= piecesNeeded and
\* piecesCompleted <= piecesNeeded
AllCounts ==
  {x \in (1..MaxPieces) \X (1..MaxPieces) \X (0..MaxPieces) :
     x[2] <= x[1] /\ x[3] <= x[1]}

\* the repair of one chunk, of any piece counts
NextThreshold ==
  \/ \E counts \in AllCounts, lp \in BOOLEAN :
       RepairChunk("c1", ChunkWith(lp, counts, [i \in 1..NumPieces |-> i = 1]))
  \/ Repair({"c1"})

SpecThreshold == InitRepair /\ [][NextThreshold]_vars

\* Sector calls of the sessions on the shared contract.  The owner's Close and
\* the cancellation are left to SpecLifecycle: to a Sector call a socket closed
\* on this side is a round trip that fails, which IO allows at any time.
Next ==
  \/ \E s \in Sessions, price \in BandwidthPrices : NewDownloader(s, price)
  \/ \E s \in Sessions : NewDial(s)
  \/ \E s \in Sessions : NewWriteRPC(s)
  \/ \E s \in Sessions : NewVerify(s)
  \/ DeleteContract
  \/ \E s \in Sessions : SetSaveFn(s)
  \/ \E s \in Sessions, r \in Roots : SectorAcquire(s, r)
  \/ \E s \in Sessions : SectorRevision(s)
  \/ \E s \in Sessions : SectorStartDownload(s)
  \/ \E s \in Sessions : SectorSave(s)
  \/ \E s \in Sessions : SectorSendAction(s)
  \/ \E s \in Sessions : SectorNegotiate(s)
  \/ \E s \in Sessions : SectorRead(s)
  \/ \E s \in Sessions : SectorReturn(s)

Spec == Init /\ [][Next]_vars

\* The same with every Sector call running on to its return, and a session
\* that can call Sector calling it: it waits in Acquire until the contract is
\* free.  Nothing makes the host answer well.
SpecHandoff ==
  /\ Spec
  /\ \A s \in Sessions :
       /\ WF_vars(\E r \in Roots : SectorAcquire(s, r))
       /\ WF_vars(SectorRevision(s))
       /\ WF_vars(SectorStartDownload(s))
       /\ WF_vars(SectorSave(s))
       /\ WF_vars(SectorSendAction(s))
       /\ WF_vars(SectorNegotiate(s))
       /\ WF_vars(SectorRead(s))
       /\ WF_vars(SectorReturn(s))

\* One session from construction to Close, with the cancellation signal, the
\* watcher and the concurrent callers of Close.
NextLifecycle ==
  \/ \E s \in Cancellable, price \in BandwidthPrices : NewDownloader(s, price)
  \/ \E s \in Cancellable : NewDial(s)
  \/ \E s \in Cancellable : NewWriteRPC(s)
  \/ \E s \in Cancellable : NewVerify(s)
  \/ \E s \in Cancellable : Cancel(s)
  \/ \E s \in Cancellable : WatcherCancel(s)
  \/ \E s \in Cancellable : WatcherClosed(s)
  \/ \E s \in Cancellable : \E k \in ClosersOf(s) : CloseCall(s, k)
  \/ \E s \in Cancellable : \E k \in ClosersOf(s) : shutdown(s, k)
  \/ \E s \in Cancellable : \E k \in ClosersOf(s) : CloseConn(s, k)

SpecLifecycle == Init /\ [][NextLifecycle]_vars

\* The same with the goroutines scheduled fairly: the watcher, and a call of
\* Close once it has begun.  Nothing makes the caller cancel or call Close.
SpecWatcher ==
  /\ SpecLifecycle
  /\ \A s \in Cancellable :
       /\ WF_vars(WatcherCancel(s))
       /\ WF_vars(WatcherClosed(s))
       /\ \A k \in ClosersOf(s) : WF_vars(shutdown(s, k)) /\ WF_vars(CloseConn(s, k))


(***************************************************************************)
(* Properties                                                              *)
(***************************************************************************)
\* the session is inside a Sector call, between Acquire and Return
InCall(s) == pc[s] \in {"price", "start", "save", "send", "negotiate", "read", "defers"}

\* the step in which the Sector call of s returns
Returning(s) == pc[s] = "defers" /\ pc'[s] = "ready"

\* the payload is not exactly one blob of SectorSize bytes hashing to r
BadPayload(ss, r) ==
  \/ Len(ss) # 1
  \/ Len(ss[1]) # SectorSize
  \/ MerkleRoot(ss[1]) # r

(* C1: a Sector call that returns a nil error returns a payload of SectorSize
   bytes whose Merkle root is the root asked for, whatever the host sent; a
   payload of wrong length or wrong hash never comes with a nil error. *)
C1_SectorPayloadVerified ==
  [][\A s \in Sessions :
       (Returning(s) /\ ret'[s].err = NoErr)
         => /\ Len(ret'[s].sector) = SectorSize
            /\ MerkleRoot(ret'[s].sector) = root[s]]_vars

\* a Sector call has returned a sector with a nil error
C1_Witness ==
  \E s \in Sessions :
    /\ ret[s].op = "sector"
    /\ ret[s].err = NoErr
    /\ ret[s].sector \in TargetSectors

(* C2: when the payload read is not exactly one blob, or the blob has the wrong
   length, or its hash differs from the root asked for, the call returns an
   error, counts one failed interaction and no successful one, and hands the
   contract back as it acquired it: same revision, funds and spending. *)
C2_BadPayloadFails ==
  [][\A s \in Sessions :
       (Returning(s) /\ sectors[s].read /\ BadPayload(sectors[s].blobs, root[s]))
         => /\ ret'[s].err # NoErr
            /\ reps'[s] = <<0, 1>>
            /\ csContract' = before[s]
            /\ csContract' = csContract]_vars

\* a call is about to return after reading one blob of the right size and the
\* wrong hash, and another after reading two blobs
C2_Witness ==
  \E s \in Sessions :
    /\ pc[s] = "defers"
    /\ sectors[s].read
    /\ Len(sectors[s].blobs) = 1
    /\ Len(sectors[s].blobs[1]) = SectorSize
    /\ MerkleRoot(sectors[s].blobs[1]) # root[s]
    /\ err[s] # NoErr
    /\ calls[s] = 2

(* C3: after any sequence of Sector calls the contract's funds are the initial
   funds minus the inflated prices of the successful calls, its download
   spending is the initial spending plus the same sum, and the spending never
   decreases. *)
C3_FundsAccounting ==
  [][/\ RenterFunds(csContract') = funds0[1] - paid'
     /\ csContract'.DownloadSpending = funds0[2] + paid'
     /\ csContract'.DownloadSpending >= csContract.DownloadSpending]_vars

\* two calls have succeeded and one has failed
C3_Witness ==
  /\ csContract.LastRevision.version = 3
  /\ paid > 0
  /\ csContract.DownloadSpending = paid
  /\ \E s \in Sessions : ret[s].op = "sector" /\ ret[s].err # NoErr

(* C4: the contract's funds are never negative, and no Sector call builds a
   revision that deducts more than the funds the contract holds. *)
C4_FundsNeverNegative ==
  /\ RenterFunds(csContract) >= 0
  /\ \A s \in Sessions :
       rev[s] # Nil => /\ sectorPrice[s] <= RenterFunds(before[s])
                       /\ rev[s].funds >= 0

(* C5: with several sessions on the same contract at most one is between
   Acquire and Return, that one holds the contract, every revision is built on
   the revision the set holds, every successful call raises the committed
   revision number by one, and the committed revision number never goes down. *)
C5_SerializedRevisions ==
  [][/\ Cardinality({s \in Sessions : InCall(s)}) <= 1
     /\ \A s \in Sessions :
          /\ InCall(s) => csHeld = s
          /\ rev[s] # Nil =>
               rev[s].version = csContract.LastRevision.version + 1
          /\ (Returning(s) /\ ret'[s].err = NoErr) =>
               /\ csContract'.LastRevision = rev[s]
               /\ csContract'.LastRevision.version
                    = csContract.LastRevision.version + 1
     /\ csContract'.LastRevision.version >= csContract.LastRevision.version]_vars

\* both sessions have committed a revision, one waiting for the other
C5_Witness ==
  /\ csContract.LastRevision.version >= 3
  /\ \A s \in Sessions : ret[s].op = "sector" /\ ret[s].err = NoErr


(* C6, as claimed: in every Sector call the revision is sent to the host only
   after SaveFn was invoked and returned successfully. *)
C6_AlwaysSavedBeforeSend ==
  \A s \in Sessions : sent[s] => (saved[s].called /\ saved[s].ok)

(* C6, amended: on a session whose SaveFn is set, the revision is sent to the
   host only after SaveFn was invoked and returned successfully in the same
   call, and it is never sent when SaveFn failed; SaveFn is invoked only when
   it is set. *)
C6_SavedBeforeSendWhenSet ==
  \A s \in Sessions :
    /\ (SaveFn[s] /\ sent[s]) => (saved[s].called /\ saved[s].ok)
    /\ (saved[s].called /\ ~saved[s].ok) => ~sent[s]
    /\ saved[s].called => SaveFn[s]

\* a revision was sent after a successful save, in a session's second call
C6_Witness ==
  \E s \in Sessions :
    /\ SaveFn[s]
    /\ sent[s]
    /\ saved[s].called
    /\ saved[s].ok
    /\ calls[s] = 2

(* C7: what Sector hands to SaveFn before it sends the new revision is the
   contract's current revision, the one held when the call began, with the
   contract's committed roots, and not the revision just built. *)
C7_SavesCurrentRevision ==
  \A s \in Sessions :
    saved[s].called => /\ saved[s].rev = before[s].LastRevision
                       /\ saved[s].roots = before[s].MerkleRoots

\* the step in which a Sector call of s ends: it returns at once for want of
\* the contract, or it returns after its deferred functions
SectorEnds(s) ==
  \/ Returning(s)
  \/ pc[s] = "ready" /\ pc'[s] = "ready" /\ calls'[s] = calls[s] + 1

\* the errors of the steps that come before the download action is sent
BeforeActionSent ==
  {"contract has insufficient funds to support download", "settings failed",
   "save failed", "send failed"}

(* C8, as claimed: every Sector call counts exactly one interaction, a
   successful one if it returns nil and a failed one if it returns an error,
   whatever the step that failed. *)
C8_AlwaysOneInteraction ==
  [][\A s \in Sessions :
       SectorEnds(s) =>
         reps'[s] = IF ret'[s].err = NoErr THEN <<1, 0>> ELSE <<0, 1>>]_vars

(* C8, amended: a Sector call that has sent the download action counts exactly
   one interaction when it returns, a successful one if it returns nil and a
   failed one if it returns an error; a call that fails before (contract
   missing, insufficient funds, settings, SaveFn, sending the action) returns
   an error and counts none; no call counts both. *)
C8_OneInteractionOnceActionSent ==
  [][\A s \in Sessions :
       /\ Returning(s) =>
            /\ err[s] \in BeforeActionSent =>
                 reps'[s] = <<0, 0>> /\ ret'[s].err # NoErr
            /\ (err[s] \notin BeforeActionSent /\ err[s] # NoErr) =>
                 reps'[s] = <<0, 1>> /\ ret'[s].err # NoErr
            /\ err[s] = NoErr =>
                 reps'[s] = <<1, 0>> /\ ret'[s].err = NoErr
       /\ (SectorEnds(s) /\ ~Returning(s)) =>
            reps'[s] = <<0, 0>> /\ ret'[s].err # NoErr]_vars

\* one call has failed and counted nothing, another has succeeded and counted
\* one successful interaction
C8_Witness ==
  \E s, u \in Sessions :
    /\ ret[s].op = "sector" /\ ret[s].err # NoErr /\ reps[s] = <<0, 0>>
    /\ ret[u].op = "sector" /\ ret[u].err = NoErr /\ reps[u] = <<1, 0>>

\* the step in which NewDownloader returns after its deferred function was
\* registered
NewReturning(s) == pc[s] \in {"dial", "rpc", "verify"} /\ ret'[s].op = "new"
                     /\ pc'[s] \in {"ready", "failed"}

(* C9: NewDownloader counts one successful interaction when it returns a
   session, nothing when the recent-revision agreement fails with a revision
   mismatch, one failed interaction on any other dial or handshake failure; a
   handshake failure closes the socket and returns no session. *)
C9_NewDownloaderInteractions ==
  [][\A s \in Sessions :
       NewReturning(s) =>
         /\ ret'[s].err = NoErr =>
              reps'[s] = <<1, 0>> /\ pc'[s] = "ready" /\ conn'[s] # "closed"
         /\ (pc[s] = "verify" /\ IsRevisionMismatch(ret'[s].err)) =>
              reps'[s] = <<0, 0>>
         /\ (ret'[s].err # NoErr
               /\ ~(pc[s] = "verify" /\ IsRevisionMismatch(ret'[s].err))) =>
              reps'[s] = <<0, 1>>
         /\ (ret'[s].err # NoErr /\ pc[s] \in {"rpc", "verify"}) =>
              conn'[s] = "closed" /\ closeChan'[s] = "closed"
         /\ ret'[s].err # NoErr => pc'[s] = "failed"]_vars

\* the recent-revision agreement has failed with a revision mismatch
C9_Witness ==
  \E s \in Sessions :
    /\ ret[s].op = "new"
    /\ IsRevisionMismatch(ret[s].err)
    /\ reps[s] = <<0, 0>>
    /\ conn[s] = "closed"
    /\ pc[s] = "failed"

(* C10: however many times Close is called on a session, one call after the
   other or at once, and whatever the watcher does, shutdown runs at most
   once, the close channel is never closed twice and no call panics. *)
C10_CloseIdempotent ==
  \A s \in Sessions :
    /\ shutdowns[s] <= 1
    /\ ~faulted[s]
    /\ once[s] = "done" <=> (shutdowns[s] = 1 /\ closeChan[s] = "closed")
    /\ Cardinality({k \in ClosersOf(s) : closer[s][k] = "shutdown"}) <= 1

\* every call of Close on a session has returned, the watcher has ended
C10_Witness ==
  \E s \in Sessions :
    /\ ClosersOf(s) # {}
    /\ \A k \in ClosersOf(s) : closer[s][k] = "done"
    /\ shutdowns[s] = 1
    /\ conn[s] = "closed"
    /\ watcher[s] = "done"


\* the session was returned by NewDownloader and Close has not been called on it
NotClosedYet(s) ==
  /\ pc[s] = "ready"
  /\ \A k \in ClosersOf(s) : closer[s][k] = "idle"

(* C11, as claimed, its last part: once Close has run on a session, the watcher
   ends without taking the case of a cancellation that fires later. *)
C11_NoLateCancelBranch ==
  \A s \in Sessions : lateCancel[s] => branch[s] # "cancel"

(* C11, amended: when the cancellation fires on a constructed session on which
   Close has not been called, the socket is eventually closed and the watcher
   ends, and if Close is not called meanwhile it is the watcher that closes
   it; once Close has closed the channel the watcher ends; the watcher may
   still take the case of a cancellation that fires after Close has run, and
   then the socket it closes is closed already. *)
C11_WatcherClosesOnCancel ==
  /\ \A s \in Sessions :
       (NotClosedYet(s) /\ cancel[s] /\ watcher[s] = "waiting")
         ~> (conn[s] = "closed" /\ watcher[s] = "done")
  /\ \A s \in Sessions :
       (closeChan[s] = "closed" /\ watcher[s] = "waiting") ~> (watcher[s] = "done")
  /\ [](\A s \in Sessions :
          /\ (conn[s] = "closed" /\ NotClosedYet(s)) => branch[s] = "cancel"
          /\ lateCancel[s] => conn[s] = "closed"
          /\ branch[s] = "cancel" => (cancel[s] /\ conn[s] = "closed")
          /\ branch[s] = "closeChan" => closeChan[s] = "closed")

\* the cancellation has fired on a session nobody has closed, and the watcher
\* has closed its socket and ended
C11_Witness ==
  \E s \in Sessions :
    /\ NotClosedYet(s)
    /\ cancel[s]
    /\ branch[s] = "cancel"
    /\ watcher[s] = "done"
    /\ conn[s] = "closed"


(* C12: a stop response of the host to the revision exchange does not fail the
   Sector call: the call goes on to read the payload with the socket as it was,
   returns success with the new revision committed when the payload is the
   sector asked for, closes the socket as it returns, and every later Sector
   call on the session returns an error. *)
C12_GracefulStop ==
  [][\A s \in Sessions :
       /\ (pc[s] = "negotiate" /\ err'[s] = ErrStopResponse) =>
            /\ pc'[s] = "read"
            /\ "close" \in deferred'[s]
            /\ signedTxn'[s] = rev[s].version
            /\ conn'[s] = conn[s]
       /\ (pc[s] = "read" /\ "close" \in deferred[s]) =>
            /\ conn'[s] = conn[s]
            /\ "close" \in deferred'[s]
       /\ (Returning(s) /\ "close" \in deferred[s]) =>
            /\ conn'[s] = "closed"
            /\ (sectors[s].read /\ ~BadPayload(sectors[s].blobs, root[s])) =>
                 /\ ret'[s].err = NoErr
                 /\ csContract'.LastRevision = rev[s]
                 /\ reps'[s] = <<1, 0>>
       /\ (Returning(s) /\ "close" \notin deferred[s]) => conn'[s] = conn[s]
       /\ (SectorEnds(s) /\ conn[s] = "closed") => ret'[s].err # NoErr]_vars

\* the first call of a session has succeeded on a stop response, which closed
\* the socket, and its second call has returned an error
C12_Witness ==
  \E s \in Sessions :
    /\ pc[s] = "ready"
    /\ conn[s] = "closed"
    /\ calls[s] = 2
    /\ ret[s].op = "sector"
    /\ ret[s].err # NoErr
    /\ paid > 0
    /\ \A u \in Sessions \ {s} : calls[u] = 0


\* the session has a Sector call to make and another session holds the contract
Waiting(u) ==
  /\ pc[u] = "ready"
  /\ calls[u] < MaxCalls
  /\ csHeld \notin {NoOne, u}

(* C19: a Sector call that has acquired the contract holds it until it returns
   and hands it back as it returns, once, whatever the exit; no session that is
   not in a call holds the contract; a held contract is eventually released,
   and a session waiting for it eventually acquires it (or finds it deleted). *)
C19_ContractReturned ==
  /\ [][\A s \in Sessions :
          /\ Returning(s) => (csHeld = s /\ csHeld' = NoOne)
          /\ (csHeld = s /\ csHeld' # s) => Returning(s)
          /\ (InCall(s) /\ ~Returning(s)) => csHeld' = s]_vars
  /\ [](\A s \in Sessions :
          /\ InCall(s) <=> csHeld = s
          /\ InCall(s) => "return" \in deferred[s])
  /\ \A s \in Sessions : (csHeld = s) ~> (csHeld = NoOne)
  /\ \A u \in Sessions : Waiting(u) ~> (csHeld = u \/ ~csPresent)

\* a session has its second call to make while the other holds the contract and
\* is about to return with an error
C19_Witness ==
  \E s, u \in Sessions :
    /\ Waiting(u)
    /\ calls[u] = 1
    /\ csHeld = s
    /\ pc[s] = "defers"
    /\ err[s] = "save failed"

(* C20: when a Sector call returns, the revision number committed in the
   client's contract is the revision number of the latest revision the host
   has accepted and counter-signed; stated for the calls that received the
   host's counter-signature, where no message was lost. *)
C20_ClientMatchesHost ==
  [][\A s \in Sessions :
       (Returning(s) /\ rev[s] # Nil /\ signedTxn[s] = rev[s].version)
         => csContract'.LastRevision.version = hostVersion']_vars


\* the step in which the repair of c leaves the state p
Leaves(c, p) == run[c].pc = p /\ run'[c].pc # p

(* C13: when the renter has been stopped while a repair waits for its section
   download, the wait ends with the interruption error, also when the download
   has finished as well: the call never returns the download's own result. *)
C13_ShutdownWins ==
  [][\A c \in Chunks :
       (Leaves(c, "wait") /\ stopped)
         => (run'[c].pc = "done" /\ run'[c].err = ErrInterrupted)]_vars

(* C14: a fetch that is not allowed to download never issues a download
   request: with no local path, a failed open or a failed read it returns an
   error, with a successful read it returns the bytes of the local file; a
   download request is issued only by a fetch allowed to download. *)
C14_LocalOnlyNeverDownloads ==
  [][\A c \in Chunks :
       /\ (run[c].pc # "idle" /\ ~run[c].download) =>
            /\ trace'[c].requests = 0
            /\ dl'[c] = "none"
            /\ run'[c].pc # "wait"
            /\ (Leaves(c, "fetch") /\ ~chunk[c].localPath) =>
                 (run'[c].pc = "done" /\ run'[c].err = "file not available locally")
            /\ (Leaves(c, "open") /\ run'[c].pc # "read") =>
                 (run'[c].pc = "done" /\ run'[c].err = "failed to open file locally")
            /\ Leaves(c, "read") =>
                 \/ run'[c].pc = "done" /\ run'[c].err = "failed to read file locally"
                 \/ /\ run'[c].pc = "encode"
                    /\ chunk'[c].logicalChunkData = DiskData(chunk[c].length)
       /\ trace'[c].requests # trace[c].requests => run[c].download]_vars

\* a local-only fetch has failed to read the local file
C14_Witness ==
  \E c \in Chunks :
    /\ run[c].pc = "done"
    /\ ~run[c].download
    /\ chunk[c].localPath
    /\ run[c].err = "failed to read file locally"
    /\ trace[c].requests = 0

(* C15: a repair allows the download exactly when
   piecesCompleted + (piecesNeeded - minimumPieces) div 4 < piecesNeeded,
   whatever the three counts; otherwise its fetch is local only. *)
C15_DownloadThreshold ==
  /\ [][\A c \in Chunks :
          Leaves(c, "idle") =>
            run'[c].download =
              (chunk'[c].piecesCompleted
                 + ((chunk'[c].piecesNeeded - chunk'[c].minimumPieces) \div 4)
                 < chunk'[c].piecesNeeded)]_vars
  /\ [](\A c \in Chunks :
          (run[c].pc # "idle" /\ ~run[c].download) => trace[c].requests = 0)

\* the repair of a chunk with 9 of 10 pieces, 6 of them needed to rebuild it,
\* has chosen a local-only fetch
C15_Witness ==
  \E c \in Chunks :
    /\ run[c].pc = "open"
    /\ chunk[c].piecesNeeded = 10
    /\ chunk[c].minimumPieces = 6
    /\ chunk[c].piecesCompleted = 9
    /\ ~run[c].download

\* the repair of c has reached the distribution
Distributing(c) ==
  \/ run[c].pc \in {"lock", "distribute"}
  \/ run[c].pc = "done" /\ run[c].err = NoErr /\ run[c].log = "none"

(* C16: when a repair has reached the distribution, the chunk's logical buffer
   is empty, every piece whose usage flag is set is empty, and every piece
   whose flag is not set is the whole piece the encoder produced. *)
C16_OnlyNeededPiecesKept ==
  \A c \in Chunks :
    Distributing(c) =>
      /\ chunk[c].logicalChunkData = <<>>
      /\ Len(chunk[c].physicalChunkData) = Len(trace[c].encoded)
      /\ Len(chunk[c].physicalChunkData) >= Len(chunk[c].pieceUsage)
      /\ \A i \in 1..Len(chunk[c].pieceUsage) :
           IF chunk[c].pieceUsage[i]
           THEN chunk[c].physicalChunkData[i] = <<>>
           ELSE /\ chunk[c].physicalChunkData[i] = trace[c].encoded[i]
                /\ Len(chunk[c].physicalChunkData[i]) = PieceSize

\* a chunk with a piece in use and a piece not in use is about to be handed to
\* the first worker
C16_Witness ==
  \E c \in Chunks :
    /\ run[c].pc = "distribute"
    /\ run[c].visited = {}
    /\ workerPool # {}
    /\ \E i, j \in 1..Len(chunk[c].pieceUsage) :
         chunk[c].pieceUsage[i] /\ ~chunk[c].pieceUsage[j]

\* the times the chunk c was queued on the worker w
Delivered(c, w) == Cardinality({i \in 1..Len(queue[w]) : queue[w][i] = c})

(* C17: a repair hands the chunk to the workers exactly when fetching, encoding
   and the check of the number of pieces succeeded: then every worker of the
   pool as it was when the read lock was taken is handed the chunk once, and
   no other worker is, whatever changes of the pool are attempted meanwhile;
   a repair that fails hands it to no worker and leaves the other repairs as
   they are. *)
C17_DistributedToSnapshot ==
  /\ [](\A c \in Chunks : \A w \in Workers :
          /\ (run[c].pc = "done" /\ Distributing(c)) =>
               Delivered(c, w) = IF w \in trace[c].snapshot THEN 1 ELSE 0
          /\ run[c].pc = "distribute" =>
               /\ workerPool = trace[c].snapshot
               /\ Delivered(c, w) = IF w \in run[c].visited THEN 1 ELSE 0
               /\ run[c].visited \subseteq trace[c].snapshot
          /\ (run[c].pc # "distribute" /\ ~(run[c].pc = "done" /\ Distributing(c))) =>
               Delivered(c, w) = 0)
  /\ [][\A c \in Chunks :
          (run'[c].pc = "done" /\ run[c].pc # "done" /\ ~Distributing(c)')
            => \A o \in Chunks \ {c} : run'[o] = run[o] /\ chunk'[o] = chunk[o]]_vars

\* one repair has handed its chunk to both workers, the pool has changed
\* since, and the other repair has stopped at the check of the pieces
C17_Witness ==
  \E c, o \in Chunks :
    /\ run[c].pc = "done"
    /\ Distributing(c)
    /\ trace[c].snapshot = Workers
    /\ workerPool # Workers
    /\ \A w \in Workers : Delivered(c, w) = 1
    /\ run[o].pc = "done"
    /\ run[o].log = "critical"
    /\ \A w \in Workers : Delivered(o, w) = 0

\* the bytes a repair has credited to the memory accountant
Credited(c) == IF trace[c].credits = <<>> THEN 0 ELSE trace[c].credits[1]

(* C18: when a repair ends, on whatever path, the bytes it credited to the
   memory accountant are the bytes it released from the chunk's buffers. *)
C18_CreditEqualsReleased ==
  \A c \in Chunks :
    run[c].pc = "done" => Credited(c) = trace[c].released

====
